---- MODULE Spec2Model ----
(***************************************************************************)
(* Model of the DEBMM assessment scorer: score.py (score_question,         *)
(* compute_criterion_score, determine_tier, run_scoring,                   *)
(* generate_recommendations, load_xlsx_responses), llm_scorer.py            *)
(* (merge_llm_scores), generate_spreadsheet.py (build_assessment_tab) and  *)
(* extract_data.py (upsert_history).                                       *)
(*                                                                         *)
(* Numbers.  A question score is an integer.  Criterion, tier and overall  *)
(* scores are stored by the code rounded to 2 decimals; they are kept here *)
(* as integers in hundredths (3.0 is 300).  Sums and quotients are exact   *)
(* rationals held as numerator and denominator, and Python's round() is    *)
(* round-half-to-even on that exact value.  None is NULL.                  *)
(***************************************************************************)
EXTENDS Integers, Sequences, FiniteSets, TLC

VARIABLES rubric, questionnaire, response, results, llm_analysis, phase, merges,
          workbook, xlsx_response, history, upserts

\* the spreadsheet, the history file and the upsert_history calls made so far,
\* which the scoring pipeline leaves alone
files == <<workbook, xlsx_response, history, upserts>>

vars == <<rubric, questionnaire, response, results, llm_analysis, phase, merges,
          workbook, xlsx_response, history, upserts>>

\* Python None where a number is expected (every number of the model is >= 0).
NULL == -1

\* ---------------------------------------------------------------------------
\* Bounds of the model
\* ---------------------------------------------------------------------------

\* longest text_scores list of an external document
MaxTextScores == 1

\* number of merge_llm_scores calls applied to one result document
MaxMerges == 2

\* upsert_history calls in one behaviour
MaxUpserts == 3

\* ---------------------------------------------------------------------------
\* Arithmetic helpers
\* ---------------------------------------------------------------------------

RECURSIVE SumSeq(_)
SumSeq(s) == IF s = <<>> THEN 0 ELSE Head(s) + SumSeq(Tail(s))

\* Python round(num/den) for num >= 0, den > 0: nearest integer, ties to even.
RoundHalfEven(num, den) ==
  LET q == num \div den
      r == num % den
  IN  IF 2 * r < den THEN q
      ELSE IF 2 * r > den THEN q + 1
      ELSE IF q % 2 = 0 THEN q ELSE q + 1

\* round(num/den, 2), as hundredths
Round2(num, den) == RoundHalfEven(100 * num, den)

\* ---------------------------------------------------------------------------
\* Answers.  A raw answer is a tagged value: t is the Python type, n the
\* numeric value (bool: 0/1, int: the integer, float: the value in tenths),
\* s the characters of a string.
\* ---------------------------------------------------------------------------

NoneAnswer  == [t |-> "none",  n |-> 0, s |-> <<>>]
BoolAnswer(b) == [t |-> "bool", n |-> IF b THEN 1 ELSE 0, s |-> <<>>]
IntAnswer(i)  == [t |-> "int",  n |-> i, s |-> <<>>]
FloatAnswer(tenths) == [t |-> "float", n |-> tenths, s |-> <<>>]
StrAnswer(chars)    == [t |-> "str", n |-> 0, s |-> chars]

\* str.strip(): drop leading and trailing blanks
RECURSIVE LStrip(_)
LStrip(s) == IF s # <<>> /\ Head(s) = " " THEN LStrip(Tail(s)) ELSE s

RECURSIVE RStrip(_)
RStrip(s) ==
  IF s # <<>> /\ s[Len(s)] = " " THEN RStrip(SubSeq(s, 1, Len(s) - 1)) ELSE s

\* strip() that trims nothing
Strip_keep(s) == s

Strip(s) == RStrip(LStrip(s))

\* isinstance(answer, (int, float)); bool is a subclass of int in Python
IsNumber(answer) == answer.t \in {"bool", "int", "float"}

\* the answer's numeric value in tenths
Tenths(answer) == IF answer.t = "float" THEN answer.n ELSE 10 * answer.n

\* int(answer) for a number >= 0: truncation
IntOf(answer) == Tenths(answer) \div 10

\* ---------------------------------------------------------------------------
\* score_question
\* ---------------------------------------------------------------------------

\* the result dict with an unknown type reported as an invalid answer
QuestionResult_invalid(qid, qtype, score, status, raw, error) ==
  [id |-> qid, type |-> qtype, score |-> score,
   status |-> IF status = "unknown_type" THEN "invalid" ELSE status,
   raw_answer |-> raw, error |-> error]

QuestionResult(qid, qtype, score, status, raw, error) ==
  [id |-> qid, type |-> qtype, score |-> score, status |-> status,
   raw_answer |-> raw, error |-> error]

\* question["scoring"]["yes_value"] is read for every boolean answer to a
\* checklist question, before the answer is looked at: a question without
\* that key raises KeyError (yes_value NULL stands for the missing key)
RaisesKeyError(question, answer) ==
  /\ answer.t = "bool"
  /\ question.type = "checklist"
  /\ question.yes_value = NULL

\* a call that raises returns no result: the status "KeyError" marks it
score_question(question, answer) ==
  LET qtype == question.type
      qid   == question.id
  IN
  IF answer.t = "none"
    THEN QuestionResult(qid, qtype, NULL, "unanswered", NoneAnswer, "")
  ELSE IF RaisesKeyError(question, answer)
    THEN QuestionResult(qid, qtype, NULL, "KeyError", answer, "'yes_value'")
  ELSE IF qtype = "checklist"
    THEN IF answer.t = "bool"
           THEN QuestionResult(qid, qtype,
                               IF answer.n = 1 THEN question.yes_value ELSE 1,
                               "scored", answer, "")
           ELSE QuestionResult(qid, qtype, NULL, "invalid", answer,
                               "Expected boolean")
  ELSE IF qtype = "scale"
    THEN IF IsNumber(answer) /\ 10 <= Tenths(answer) /\ Tenths(answer) <= 50
           THEN QuestionResult(qid, qtype, IntOf(answer), "scored", answer, "")
           ELSE QuestionResult(qid, qtype, NULL, "invalid", answer,
                               "Expected integer 1-5")
  ELSE IF qtype = "text"
    THEN LET has_content == answer.t = "str" /\ Strip(answer.s) # <<>>
         IN  QuestionResult(qid, qtype, NULL,
                            IF has_content THEN "needs_review" ELSE "unanswered",
                            IF has_content THEN answer ELSE NoneAnswer, "")
  ELSE QuestionResult(qid, qtype, NULL, "unknown_type", answer, "")

\* ---------------------------------------------------------------------------
\* compute_criterion_score
\* ---------------------------------------------------------------------------

level_names(level) ==
  CASE level = 1 -> "Initial"
    [] level = 2 -> "Repeatable"
    [] level = 3 -> "Defined"
    [] level = 4 -> "Managed"
    [] level = 5 -> "Optimized"
    [] OTHER     -> "Unknown"

Scores(qs) == [i \in 1..Len(qs) |-> qs[i].score]

IsNotNone(s) == s.score # NULL

IsNeedsReview(s) == s.status = "needs_review"

\* compute_criterion_score with an unscored criterion coerced to 0
compute_criterion_score_zero(criterion_scores) ==
  LET scored       == SelectSeq(criterion_scores, IsNotNone)
      needs_review == SelectSeq(criterion_scores, IsNeedsReview)
  IN  [score |-> IF scored = <<>> THEN 0
                 ELSE Round2(SumSeq(Scores(scored)), Len(scored)),
       level |-> IF scored = <<>> THEN NULL
                 ELSE RoundHalfEven(SumSeq(Scores(scored)), Len(scored)),
       level_name |-> IF scored = <<>> THEN "absent"
                      ELSE level_names(RoundHalfEven(SumSeq(Scores(scored)),
                                                     Len(scored))),
       scored_count |-> Len(scored),
       total_count |-> Len(criterion_scores),
       needs_review_count |-> Len(needs_review)]

\* compute_criterion_score dividing by the number of all the questions
compute_criterion_score_total(criterion_scores) ==
  LET scored       == SelectSeq(criterion_scores, IsNotNone)
      needs_review == SelectSeq(criterion_scores, IsNeedsReview)
      total        == SumSeq(Scores(scored))
      level        == RoundHalfEven(total, Len(criterion_scores))
  IN  IF scored = <<>>
        THEN [score |-> NULL, level |-> NULL, level_name |-> "absent",
              scored_count |-> 0,
              total_count |-> Len(criterion_scores),
              needs_review_count |-> Len(needs_review)]
        ELSE [score |-> Round2(total, Len(criterion_scores)),
              level |-> level,
              level_name |-> level_names(level),
              scored_count |-> Len(scored),
              total_count |-> Len(criterion_scores),
              needs_review_count |-> Len(needs_review)]

\* level_name "absent": the returned dict has no such key
compute_criterion_score(criterion_scores) ==
  LET scored       == SelectSeq(criterion_scores, IsNotNone)
      needs_review == SelectSeq(criterion_scores, IsNeedsReview)
  IN  IF scored = <<>>
        THEN [score |-> NULL, level |-> NULL, level_name |-> "absent",
              scored_count |-> 0,
              total_count |-> Len(criterion_scores),
              needs_review_count |-> Len(needs_review)]
        ELSE LET total == SumSeq(Scores(scored))
                 level == RoundHalfEven(total, Len(scored))
             IN  [score |-> Round2(total, Len(scored)),
                  level |-> level,
                  level_name |-> level_names(level),
                  scored_count |-> Len(scored),
                  total_count |-> Len(criterion_scores),
                  needs_review_count |-> Len(needs_review)]

\* ---------------------------------------------------------------------------
\* determine_tier
\* ---------------------------------------------------------------------------

\* an order in which an enrichment tier takes part in the gating
core_tier_order_enrichment ==
  <<"tier_0", "tier_1", "enrichment_people", "tier_2", "tier_3">>

core_tier_order == <<"tier_0", "tier_1", "tier_2", "tier_3", "tier_4">>

tier_names(tier_id) ==
  CASE tier_id = "tier_0" -> "Tier 0: Foundation"
    [] tier_id = "tier_1" -> "Tier 1: Basic"
    [] tier_id = "tier_2" -> "Tier 2: Intermediate"
    [] tier_id = "tier_3" -> "Tier 3: Advanced"
    [] tier_id = "tier_4" -> "Tier 4: Expert"
    [] OTHER              -> "Below Foundation"

\* all(c["score"] is not None and c["score"] >= 3.0 for c in criteria.values())
all_defined(tier_data) ==
  \A cid \in DOMAIN tier_data.criteria :
     /\ tier_data.criteria[cid].score # NULL
     /\ tier_data.criteria[cid].score >= 300

\* The loop over core_tier_order from position i (1-based) with the tier
\* achieved so far (0-based index, -1 for none); both breaks end the loop.
RECURSIVE tier_loop(_, _, _)
tier_loop(tier_scores, i, achieved_tier) ==
  IF i > Len(core_tier_order) THEN achieved_tier
  ELSE IF core_tier_order[i] \notin DOMAIN tier_scores THEN achieved_tier
  ELSE IF all_defined(tier_scores[core_tier_order[i]])
         THEN tier_loop(tier_scores, i + 1, i - 1)
         ELSE achieved_tier

TierDetermination(achieved_tier) ==
  [tier_number |-> achieved_tier,
   tier_name   |-> IF achieved_tier >= 0
                     THEN tier_names(core_tier_order[achieved_tier + 1])
                     ELSE "Below Foundation",
   description |-> IF achieved_tier >= 0
                     THEN "All criteria through the tier meet Defined"
                     ELSE "Not all Tier 0 criteria meet Defined"]

\* the loop with `continue` in place of the break on a failing tier
RECURSIVE tier_loop_skip(_, _, _)
tier_loop_skip(tier_scores, i, achieved_tier) ==
  IF i > Len(core_tier_order) THEN achieved_tier
  ELSE IF core_tier_order[i] \notin DOMAIN tier_scores THEN achieved_tier
  ELSE IF all_defined(tier_scores[core_tier_order[i]])
         THEN tier_loop_skip(tier_scores, i + 1, i - 1)
         ELSE tier_loop_skip(tier_scores, i + 1, achieved_tier)

determine_tier_skip(tier_scores) ==
  TierDetermination(tier_loop_skip(tier_scores, 1, -1))

determine_tier(tier_scores) ==
  TierDetermination(tier_loop(tier_scores, 1, -1))

\* ---------------------------------------------------------------------------
\* generate_recommendations
\* ---------------------------------------------------------------------------

tier_order(tier_id) ==
  CASE tier_id = "tier_0" -> 0
    [] tier_id = "tier_1" -> 1
    [] tier_id = "tier_2" -> 2
    [] tier_id = "tier_3" -> 3
    [] tier_id = "tier_4" -> 4
    [] tier_id = "enrichment_people"  -> 5
    [] tier_id = "enrichment_process" -> 6
    [] OTHER -> 99

\* the key with the score first and the tier rank second
KeyLeq_score_first(a, b) ==
  \/ a.score < b.score
  \/ /\ a.score = b.score
     /\ tier_order(a.tier_id) <= tier_order(b.tier_id)

\* key=lambda c: (tier_order.get(c["tier_id"], 99), c["score"] or 0)
KeyLeq(a, b) ==
  \/ tier_order(a.tier_id) < tier_order(b.tier_id)
  \/ /\ tier_order(a.tier_id) = tier_order(b.tier_id)
     /\ a.score <= b.score

\* list.sort is stable: x goes after every element whose key is <= its key
RECURSIVE InsertByKey(_, _)
InsertByKey(sorted, x) ==
  IF sorted = <<>> THEN <<x>>
  ELSE IF KeyLeq(Head(sorted), x)
         THEN <<Head(sorted)>> \o InsertByKey(Tail(sorted), x)
         ELSE <<x>> \o sorted

RECURSIVE SortByKey(_)
SortByKey(s) ==
  IF s = <<>> THEN <<>>
  ELSE InsertByKey(SortByKey(SubSeq(s, 1, Len(s) - 1)), s[Len(s)])

\* the filter with the threshold itself included
IsBelowDefined_inclusive(crit_data) == crit_data.score # NULL /\ crit_data.score <= 300

IsBelowDefined(crit_data) == crit_data.score # NULL /\ crit_data.score < 300

Recommendation(crit) ==
  [criterion     |-> crit.name,
   tier          |-> crit.tier_name,
   current_score |-> crit.score,
   current_level |-> crit.level_name,
   target        |-> IF crit.score < 300 THEN "Defined" ELSE "Managed",
   priority      |-> IF crit.tier_id \in {"tier_0", "tier_1"}
                       THEN "high" ELSE "medium"]

generate_recommendations(tier_scores, criterion_results) ==
  LET below_defined == SortByKey(SelectSeq(criterion_results, IsBelowDefined))
  IN  [i \in 1..Len(below_defined) |-> Recommendation(below_defined[i])]

\* ---------------------------------------------------------------------------
\* run_scoring
\* ---------------------------------------------------------------------------

\* the criterion ids the rubric lists, and build_criterion_index
RubricCriteria(rub) ==
  UNION {{rub[t].criteria[k].id : k \in 1..Len(rub[t].criteria)} : t \in 1..Len(rub)}

build_criterion_index(rub) ==
  [cid \in RubricCriteria(rub) |->
     LET t == CHOOSE t \in 1..Len(rub) :
                \E k \in 1..Len(rub[t].criteria) : rub[t].criteria[k].id = cid
         k == CHOOSE k \in 1..Len(rub[t].criteria) : rub[t].criteria[k].id = cid
     IN  [id |-> cid, name |-> rub[t].criteria[k].name,
          weight |-> rub[t].criteria[k].weight,
          tier_id |-> rub[t].id, tier_name |-> rub[t].name]]

\* responses.get(qid, {}).get("answer")
AnswerOf(resp, qid) == IF qid \in DOMAIN resp THEN resp[qid] ELSE NoneAnswer

\* score each question, in questionnaire order
question_scores(qn, resp) ==
  [i \in 1..Len(qn) |->
     LET r == score_question(qn[i], AnswerOf(resp, qn[i].id))
     IN  [id |-> r.id, type |-> r.type, score |-> r.score, status |-> r.status,
          raw_answer |-> r.raw_answer, error |-> r.error,
          criterion |-> qn[i].criterion, tier |-> qn[i].tier]]

\* keys of criterion_groups in insertion order: each criterion at the position
\* of its first question
RECURSIVE GroupOrder(_)
GroupOrder(qs) ==
  IF qs = <<>> THEN <<>>
  ELSE LET rest == GroupOrder(SubSeq(qs, 1, Len(qs) - 1))
           crit == qs[Len(qs)].criterion
       IN  IF \E i \in 1..Len(rest) : rest[i] = crit THEN rest
           ELSE Append(rest, crit)

\* criterion_results, as the list of its values in insertion order; "id" is
\* the key each value is stored under
criterion_results(rub, qs) ==
  LET c_index == build_criterion_index(rub)
      order   == GroupOrder(qs)
  IN  [i \in 1..Len(order) |->
        LET crit_id == order[i]
            scores  == SelectSeq(qs, LAMBDA q : q.criterion = crit_id)
            result  == compute_criterion_score(scores)
            known   == crit_id \in DOMAIN c_index
        IN  [id         |-> crit_id,
             score      |-> result.score,
             level      |-> result.level,
             level_name |-> result.level_name,
             scored_count |-> result.scored_count,
             total_count  |-> result.total_count,
             needs_review_count |-> result.needs_review_count,
             name      |-> IF known THEN c_index[crit_id].name ELSE crit_id,
             weight    |-> IF known /\ c_index[crit_id].weight # NULL
                             THEN c_index[crit_id].weight ELSE 1,
             tier_id   |-> IF known THEN c_index[crit_id].tier_id ELSE "unknown",
             tier_name |-> IF known THEN c_index[crit_id].tier_name ELSE "Unknown",
             questions |-> scores,
             includes_llm_scores |-> FALSE]]

\* sum(x["score"] * x["weight"]) and sum(x["weight"]) over the scored entries
RECURSIVE WeightedSum(_)
WeightedSum(cs) ==
  IF cs = <<>> THEN 0
  ELSE (IF Head(cs).score # NULL THEN Head(cs).score * Head(cs).weight ELSE 0)
       + WeightedSum(Tail(cs))

RECURSIVE TotalWeight(_)
TotalWeight(cs) ==
  IF cs = <<>> THEN 0
  ELSE (IF Head(cs).score # NULL THEN Head(cs).weight ELSE 0)
       + TotalWeight(Tail(cs))

\* the mean with every weight taken as 1
WeightedMean_unweighted(cs) ==
  LET scored == SelectSeq(cs, IsNotNone)
  IN  IF scored # <<>>
        THEN RoundHalfEven(SumSeq(Scores(scored)), Len(scored))
        ELSE NULL

\* round(sum(...) / total_weight, 2) if total_weight > 0 else None
WeightedMean(cs) ==
  IF TotalWeight(cs) > 0
    THEN RoundHalfEven(WeightedSum(cs), TotalWeight(cs))
    ELSE NULL

\* the entries of a tier: the criteria the rubric lists under it that have a
\* criterion result
TierEntries(tier, crs) ==
  SelectSeq(crs, LAMBDA c : \E k \in 1..Len(tier.criteria) : tier.criteria[k].id = c.id)

tier_scores_of(rub, crs) ==
  [tid \in {rub[t].id : t \in 1..Len(rub)} |->
     LET tier    == rub[CHOOSE t \in 1..Len(rub) : rub[t].id = tid]
         entries == TierEntries(tier, crs)
     IN  [name     |-> tier.name,
          score    |-> WeightedMean(entries),
          criteria |-> [cid \in {entries[i].id : i \in 1..Len(entries)} |->
                          entries[CHOOSE i \in 1..Len(entries) : entries[i].id = cid]]]]

\* the exception of a question's score_question call leaves run_scoring
run_scoring_raises(qn, resp) ==
  \E i \in 1..Len(qn) : RaisesKeyError(qn[i], AnswerOf(resp, qn[i].id))

IsIssue(qs) == qs.status \in {"unanswered", "invalid"}

IsScored(qs) == qs.status = "scored"

run_scoring(rub, qn, resp) ==
  LET qs  == question_scores(qn, resp)
      crs == criterion_results(rub, qs)
      tier_scores  == tier_scores_of(rub, crs)
      needs_review == SelectSeq(qs, IsNeedsReview)
      issues       == SelectSeq(qs, IsIssue)
  IN  [overall_score      |-> WeightedMean(crs),
       tier_determination |-> determine_tier(tier_scores),
       tier_scores        |-> tier_scores,
       needs_review       |-> [i \in 1..Len(needs_review) |->
                                 [id |-> needs_review[i].id,
                                  criterion |-> needs_review[i].criterion,
                                  answer |-> needs_review[i].raw_answer]],
       issues             |-> [i \in 1..Len(issues) |->
                                 [id |-> issues[i].id,
                                  status |-> issues[i].status,
                                  error |-> issues[i].error]],
       recommendations    |-> generate_recommendations(tier_scores, crs),
       question_count     |-> Len(qs),
       scored_count       |-> Len(SelectSeq(qs, IsScored)),
       needs_review_count |-> Len(needs_review),
       issue_count        |-> Len(issues),
       llm_enhanced       |-> FALSE]

\* ---------------------------------------------------------------------------
\* merge_llm_scores
\* ---------------------------------------------------------------------------

\* q_index.get(ts["id"], {}).get("criterion"); "" stands for None
OwnerOf(qn, qid) ==
  IF \E i \in 1..Len(qn) : qn[i].id = qid
    THEN qn[CHOOSE i \in 1..Len(qn) : qn[i].id = qid].criterion
    ELSE ""

\* ts.get("criterion") or q_index.get(ts["id"], {}).get("criterion")
CriterionOf(qn, ts) == IF ts.criterion # "" THEN ts.criterion ELSE OwnerOf(qn, ts.id)

\* every external score filed under every criterion
llm_by_criterion_all(qn, text_scores, cid) == Scores(text_scores)

\* llm_by_criterion[cid]: the scores filed under cid, in document order
llm_by_criterion(qn, text_scores, cid) ==
  Scores(SelectSeq(text_scores, LAMBDA ts : CriterionOf(qn, ts) = cid))

\* the recalculation as a blend of the stored average with the new scores
MergeCriterion_chained(qn, text_scores, cdata) ==
  LET llm == llm_by_criterion(qn, text_scores, cdata.id)
  IN  IF llm = <<>> THEN cdata
      ELSE LET all_scores == (IF cdata.score # NULL THEN <<cdata.score>> ELSE <<>>)
                             \o [i \in 1..Len(llm) |-> 100 * llm[i]]
               new_avg    == RoundHalfEven(SumSeq(all_scores), Len(all_scores))
               new_level  == RoundHalfEven(new_avg, 100)
           IN  [cdata EXCEPT !.score = new_avg,
                             !.level = new_level,
                             !.level_name = level_names(new_level),
                             !.includes_llm_scores = TRUE]

\* the recalculated criterion entry (the body of the loop over the criteria)
MergeCriterion(qn, text_scores, cdata) ==
  LET llm == llm_by_criterion(qn, text_scores, cdata.id)
  IN  IF llm = <<>> THEN cdata
      ELSE LET existing_scores == Scores(SelectSeq(cdata.questions, IsNotNone))
               all_scores == existing_scores \o llm
               new_avg    == Round2(SumSeq(all_scores), Len(all_scores))
               new_level  == RoundHalfEven(new_avg, 100)
           IN  [cdata EXCEPT !.score = new_avg,
                             !.level = new_level,
                             !.level_name = level_names(new_level),
                             !.includes_llm_scores = TRUE]

\* the values of a dict, in some order
RECURSIVE Values(_)
Values(f) ==
  IF DOMAIN f = {} THEN <<>>
  ELSE LET k == CHOOSE k \in DOMAIN f : TRUE
       IN  <<f[k]>> \o Values([j \in DOMAIN f \ {k} |-> f[j]])

RECURSIVE Concat(_)
Concat(ss) == IF ss = <<>> THEN <<>> ELSE Head(ss) \o Concat(Tail(ss))

\* every criterion entry of every tier of the document
AllCriteria(tier_scores) ==
  Concat([i \in 1..Len(Values(tier_scores)) |->
            Values(Values(tier_scores)[i].criteria)])

merge_llm_scores(res, llm, qn) ==
  IF ~llm.has_text_scores THEN res
  ELSE LET merged_tiers ==
             [tid \in DOMAIN res.tier_scores |->
                LET tdata    == res.tier_scores[tid]
                    criteria == [cid \in DOMAIN tdata.criteria |->
                                   MergeCriterion(qn, llm.text_scores,
                                                  tdata.criteria[cid])]
                IN  [tdata EXCEPT !.criteria = criteria,
                                  !.score = WeightedMean(Values(criteria))]]
       IN  [res EXCEPT !.tier_scores   = merged_tiers,
                       !.overall_score = WeightedMean(AllCriteria(merged_tiers)),
                       !.llm_enhanced  = TRUE]

\* ---------------------------------------------------------------------------
\* Inputs: rubrics, questionnaires, responses, external documents
\* ---------------------------------------------------------------------------

Criterion(id, name, weight) == [id |-> id, name |-> name, weight |-> weight]

Tier(id, name, criteria) == [id |-> id, name |-> name, criteria |-> criteria]

Question(id, type, tier, criterion, yes_value) ==
  [id |-> id, type |-> type, tier |-> tier, criterion |-> criterion,
   yes_value |-> yes_value]

\* c0 gives no weight (the default 1.0 applies), c1 weighs 2.0
RubricStd ==
  << Tier("tier_0", "Tier 0: Foundation",
          << Criterion("c0", "Structured Approach", NULL) >>),
     Tier("tier_1", "Tier 1: Basic",
          << Criterion("c1", "Baseline Rules", 2) >>),
     Tier("enrichment_people", "Enrichment: People",
          << Criterion("ce", "Team Skills", 1) >>) >>

\* tier_0 lists a second criterion, c0b, that no question feeds
RubricExtra ==
  << Tier("tier_0", "Tier 0: Foundation",
          << Criterion("c0", "Structured Approach", NULL),
             Criterion("c0b", "Rule Ownership", 1) >>),
     Tier("tier_1", "Tier 1: Basic",
          << Criterion("c1", "Baseline Rules", 2) >>),
     Tier("enrichment_people", "Enrichment: People",
          << Criterion("ce", "Team Skills", 1) >>) >>

\* one tier with two criteria of different weight: ca weighs 2.0, cb gives no
\* weight (the default 1.0 applies)
RubricTwo ==
  << Tier("tier_0", "Tier 0: Foundation",
          << Criterion("ca", "Detection Coverage", 2),
             Criterion("cb", "Rule Review", NULL) >>) >>

\* two criteria in tier_0, one in tier_1 and two enrichment tiers, the
\* enrichment tiers listed first
RubricOrder ==
  << Tier("enrichment_process", "Enrichment: Process",
          << Criterion("ct", "Rule Lifecycle", NULL) >>),
     Tier("enrichment_people", "Enrichment: People",
          << Criterion("cs", "Team Skills", NULL) >>),
     Tier("tier_0", "Tier 0: Foundation",
          << Criterion("cp", "Structured Approach", NULL),
             Criterion("cq", "Rule Ownership", NULL) >>),
     Tier("tier_1", "Tier 1: Basic",
          << Criterion("cr", "Baseline Rules", NULL) >>) >>

\* the yes_value a checklist question may configure
YesValues == {4, 6}

QnFull(yes_value) ==
  << Question("T0-Q1", "checklist", "tier_0", "c0", yes_value),
     Question("T0-Q2", "text", "tier_0", "c0", NULL),
     Question("T1-Q1", "scale", "tier_1", "c1", NULL),
     Question("EP-Q1", "scale", "enrichment_people", "ce", NULL) >>

\* no question feeds a tier_0 criterion
QnNoT0 ==
  << Question("T1-Q1", "scale", "tier_1", "c1", NULL),
     Question("EP-Q1", "scale", "enrichment_people", "ce", NULL) >>

\* X-Q1 names a criterion, cx, that the rubric does not list
QnOrphan ==
  QnFull(4) \o << Question("X-Q1", "scale", "tier_1", "cx", NULL) >>

\* three scale questions feed ca and one feeds cb
QnMeans ==
  << Question("A-Q1", "scale", "tier_0", "ca", NULL),
     Question("A-Q2", "scale", "tier_0", "ca", NULL),
     Question("A-Q3", "scale", "tier_0", "ca", NULL),
     Question("B-Q1", "scale", "tier_0", "cb", NULL) >>

\* one scale question per criterion of RubricOrder, the questions of the
\* later-ranked tiers first
QnOrder ==
  << Question("RT-Q1", "scale", "enrichment_process", "ct", NULL),
     Question("RS-Q1", "scale", "enrichment_people", "cs", NULL),
     Question("RR-Q1", "scale", "tier_1", "cr", NULL),
     Question("RQ-Q1", "scale", "tier_0", "cq", NULL),
     Question("RP-Q1", "scale", "tier_0", "cp", NULL) >>

\* a scale question, a text question and a question of a type the scorer does
\* not know
QnTypes ==
  << Question("S-Q1", "scale",  "tier_1", "c1", NULL),
     Question("T-Q1", "text",   "tier_0", "c0", NULL),
     Question("U-Q1", "matrix", "enrichment_people", "ce", NULL) >>

\* a checklist question whose scoring block has no yes_value
QnNoYesValue ==
  << Question("K-Q1", "checklist", "tier_0", "c0", NULL),
     Question("EP-Q1", "scale", "enrichment_people", "ce", NULL) >>

Configs ==
  {[rubric |-> RubricStd, questionnaire |-> QnFull(yv)] : yv \in YesValues}
  \cup {[rubric |-> RubricExtra, questionnaire |-> QnFull(4)],
        [rubric |-> RubricStd,   questionnaire |-> QnNoT0],
        [rubric |-> RubricStd,   questionnaire |-> QnOrphan],
        [rubric |-> RubricTwo,   questionnaire |-> QnMeans],
        [rubric |-> RubricStd,   questionnaire |-> QnTypes],
        [rubric |-> RubricStd,   questionnaire |-> QnNoYesValue],
        [rubric |-> RubricOrder, questionnaire |-> QnOrder]}

\* the raw answers a response may give to a question
AnswersFor(q) ==
  CASE q.id \in {"A-Q1", "A-Q2"} -> {NoneAnswer, IntAnswer(1), IntAnswer(3)}
    [] q.id \in {"A-Q3", "B-Q1"} -> {NoneAnswer, IntAnswer(2)}
    [] q.id = "RP-Q1" -> {NoneAnswer, IntAnswer(1), IntAnswer(2)}
    [] q.id \in {"RQ-Q1", "RS-Q1"} -> {IntAnswer(1), IntAnswer(2)}
    [] q.id = "RR-Q1" -> {NoneAnswer, IntAnswer(2)}
    [] q.id = "RT-Q1" -> {NoneAnswer, IntAnswer(1)}
    [] q.id = "S-Q1" ->
         {NoneAnswer, IntAnswer(3), IntAnswer(6), FloatAnswer(25), FloatAnswer(30),
          BoolAnswer(TRUE), StrAnswer(<<"3">>)}
    [] q.id = "T-Q1" ->
         {NoneAnswer, StrAnswer(<< >>), StrAnswer(<<" ", "o", "k">>), IntAnswer(7)}
    [] q.id = "U-Q1" ->
         {NoneAnswer, IntAnswer(3)}
    [] q.id = "K-Q1" ->
         {NoneAnswer, BoolAnswer(TRUE), BoolAnswer(FALSE),
          StrAnswer(<<"y", "e", "s">>), IntAnswer(1)}
    [] q.type = "checklist" ->
         {NoneAnswer, BoolAnswer(TRUE), BoolAnswer(FALSE),
          StrAnswer(<<"y", "e", "s">>)}
    [] q.type = "text" ->
         {NoneAnswer, StrAnswer(<<" ", " ">>), StrAnswer(<<" ", "o", "k">>)}
    [] q.id = "T1-Q1" ->
         {NoneAnswer, IntAnswer(2), IntAnswer(4), IntAnswer(6)}
    [] q.id = "EP-Q1" ->
         {NoneAnswer, IntAnswer(2), IntAnswer(5)}
    [] OTHER ->
         {NoneAnswer, IntAnswer(5)}

QuestionIds(qn) == {qn[i].id : i \in 1..Len(qn)}

QuestionById(qn, qid) == qn[CHOOSE i \in 1..Len(qn) : qn[i].id = qid]

Responses(qn) ==
  {r \in [QuestionIds(qn) ->
            UNION {AnswersFor(qn[i]) : i \in 1..Len(qn)}] :
     \A qid \in QuestionIds(qn) : r[qid] \in AnswersFor(QuestionById(qn, qid))}

\* one entry of text_scores; criterion "" is an entry without that key
TextScore(id, criterion, score) == [id |-> id, criterion |-> criterion, score |-> score]

\* T0-Q2 is the text question of c0, T1-Q1 a scale question of c1, and cz a
\* criterion the rubric does not list; 9 is a score outside the scale
TextScoreEntries ==
  {TextScore("T0-Q2", "", 1), TextScore("T0-Q2", "c0", 5),
   TextScore("T0-Q2", "c1", 5), TextScore("T0-Q2", "cz", 5),
   TextScore("T1-Q1", "", 5), TextScore("T0-Q2", "", 9)}

RECURSIVE SeqsUpTo(_, _)
SeqsUpTo(S, n) ==
  IF n = 0 THEN {<<>>}
  ELSE SeqsUpTo(S, n - 1)
       \cup {Append(sq, x) : sq \in {t \in SeqsUpTo(S, n - 1) : Len(t) = n - 1},
                             x \in S}

NoTextScores == [has_text_scores |-> FALSE, text_scores |-> <<>>]

LlmAnalyses ==
  {NoTextScores}
  \cup {[has_text_scores |-> TRUE, text_scores |-> sq] :
          sq \in SeqsUpTo(TextScoreEntries, MaxTextScores)}

\* ---------------------------------------------------------------------------
\* State machine
\* ---------------------------------------------------------------------------

\* the history file before the first upsert_history call: not there
NoHistoryFile == [exists |-> FALSE, entries |-> << >>]

\* the result document before any run
NoResults ==
  [overall_score |-> NULL,
   tier_determination |-> TierDetermination(-1),
   tier_scores |-> << >>,
   needs_review |-> << >>, issues |-> << >>, recommendations |-> << >>,
   question_count |-> 0, scored_count |-> 0, needs_review_count |-> 0,
   issue_count |-> 0, llm_enhanced |-> FALSE]

Init ==
  /\ \E cfg \in Configs :
       /\ rubric = cfg.rubric
       /\ questionnaire = cfg.questionnaire
       /\ response \in Responses(cfg.questionnaire)
  /\ results = NoResults
  /\ llm_analysis = NoTextScores
  /\ phase = "loaded"
  /\ merges = 0
  /\ workbook = << >>
  /\ xlsx_response = << >>
  /\ history = NoHistoryFile
  /\ upserts = << >>

\* score.py main: run_scoring on the loaded documents
RunScoring ==
  /\ phase = "loaded"
  /\ IF run_scoring_raises(questionnaire, response)
       THEN results' = NoResults /\ phase' = "failed"
       ELSE /\ results' = run_scoring(rubric, questionnaire, response)
            /\ phase' = "scored"
  /\ UNCHANGED <<rubric, questionnaire, response, llm_analysis, merges, files>>

\* the respondent changes one answer and the response is scored again
Rescore(qid, answer) ==
  /\ phase \in {"scored", "failed"}
  /\ answer # response[qid]
  /\ response' = [response EXCEPT ![qid] = answer]
  /\ IF run_scoring_raises(questionnaire, response')
       THEN results' = NoResults /\ phase' = "failed"
       ELSE /\ results' = run_scoring(rubric, questionnaire, response')
            /\ phase' = "scored"
  /\ UNCHANGED <<rubric, questionnaire, llm_analysis, merges, files>>

\* llm_scorer.py main: merge an external document into the scored results
MergeLlmScores(llm) ==
  /\ phase = "scored"
  /\ results' = merge_llm_scores(results, llm, questionnaire)
  /\ llm_analysis' = llm
  /\ phase' = "merged"
  /\ merges' = 1
  /\ UNCHANGED <<rubric, questionnaire, response, files>>

\* the same external document is merged into the merged results once more
MergeAgain ==
  /\ phase = "merged"
  /\ merges < MaxMerges
  /\ results' = merge_llm_scores(results, llm_analysis, questionnaire)
  /\ merges' = merges + 1
  /\ UNCHANGED <<rubric, questionnaire, response, llm_analysis, phase, files>>

Next ==
  \/ RunScoring
  \/ \E qid \in QuestionIds(questionnaire) :
       \E answer \in AnswersFor(QuestionById(questionnaire, qid)) :
         Rescore(qid, answer)
  \/ \E llm \in LlmAnalyses : MergeLlmScores(llm)
  \/ MergeAgain

Spec == Init /\ [][Next]_vars

\* ---------------------------------------------------------------------------
\* Views of a result document used by the properties
\* ---------------------------------------------------------------------------

HasResults == phase \in {"scored", "merged"}

\* the criterion entries of the document, as (tier id, criterion id) pairs
Entries(res) ==
  {p \in (DOMAIN res.tier_scores) \X {"c0", "c0b", "c1", "ce", "cx", "ca", "cb",
                                     "cp", "cq", "cr", "cs", "ct"} :
     p[2] \in DOMAIN res.tier_scores[p[1]].criteria}

EntryOf(res, p) == res.tier_scores[p[1]].criteria[p[2]]

\* criterion scores and levels, tier scores and the overall score
ScoreView(res) ==
  [criteria |-> [p \in Entries(res) |->
                   <<EntryOf(res, p).score, EntryOf(res, p).level,
                     EntryOf(res, p).level_name>>],
   tiers    |-> [tid \in DOMAIN res.tier_scores |-> res.tier_scores[tid].score],
   overall  |-> res.overall_score]

\* 0-based index k of a core tier -> its id
CoreTier(k) == core_tier_order[k + 1]

\* some criterion of core tier k in the tier results has a null score or a
\* score below 3.0
TierFails(tier_scores, k) ==
  /\ CoreTier(k) \in DOMAIN tier_scores
  /\ \E cid \in DOMAIN tier_scores[CoreTier(k)].criteria :
        \/ tier_scores[CoreTier(k)].criteria[cid].score = NULL
        \/ tier_scores[CoreTier(k)].criteria[cid].score < 300

\* core tier k has criteria and all of them have a score >= 3.0
TierScoresWell(tier_scores, k) ==
  /\ CoreTier(k) \in DOMAIN tier_scores
  /\ DOMAIN tier_scores[CoreTier(k)].criteria # {}
  /\ \A cid \in DOMAIN tier_scores[CoreTier(k)].criteria :
        tier_scores[CoreTier(k)].criteria[cid].score >= 300

\* ---------------------------------------------------------------------------
\* Properties
\* ---------------------------------------------------------------------------

\* C1: tier determination is monotonic-prefix.  Whenever some criterion of
\* core tier k has a null score or a score below 3.0, determine_tier reports
\* an achieved index below k, whatever the higher tiers score; this holds for
\* the determination stored by run_scoring and for determine_tier applied to
\* the tier results of any document, merged ones included.
C1_MonotonicPrefix ==
  HasResults =>
    \A k \in 0..4 :
      TierFails(results.tier_scores, k) =>
        /\ determine_tier(results.tier_scores).tier_number < k
        /\ phase = "scored" => results.tier_determination.tier_number < k

\* C1 witness: tier_0 fails while tier_1 scores well, and the run reports
\* Below Foundation.
C1_Witness ==
  /\ phase = "scored"
  /\ TierFails(results.tier_scores, 0)
  /\ TierScoresWell(results.tier_scores, 1)
  /\ results.tier_determination.tier_number = -1
  /\ results.tier_determination.tier_name = "Below Foundation"

\* the score the document holds for criterion cid; NULL when it has no entry
DocScore(res, cid) ==
  IF \E p \in Entries(res) : p[2] = cid
    THEN EntryOf(res, CHOOSE p \in Entries(res) : p[2] = cid).score
    ELSE NULL

\* the rubric lists core tier k, and every criterion it lists under that tier
\* has a non-null score >= 3.0 in the document
RubricTierDefined(rub, res, k) ==
  \E t \in 1..Len(rub) :
    /\ rub[t].id = CoreTier(k)
    /\ \A i \in 1..Len(rub[t].criteria) :
         /\ DocScore(res, rub[t].criteria[i].id) # NULL
         /\ DocScore(res, rub[t].criteria[i].id) >= 300

\* C2: run_scoring reports an achieved tier index >= k exactly when, for every
\* j <= k, every criterion the rubric lists under core tier j has a non-null
\* score >= 3.0.
C2_AchievedIffAllListedCriteriaDefined ==
  phase = "scored" =>
    \A k \in 0..4 :
      (results.tier_determination.tier_number >= k)
        <=> (\A j \in 0..k : RubricTierDefined(rubric, results, j))

\* no criterion the rubric lists under tier_0 has a score
Tier0Unscored(rub, res) ==
  \A t \in 1..Len(rub) :
    rub[t].id = "tier_0" =>
      \A i \in 1..Len(rub[t].criteria) :
        DocScore(res, rub[t].criteria[i].id) = NULL

\* C3: when tier_0 fails or is entirely unscored (also when no question feeds
\* a tier_0 criterion), run_scoring reports Below Foundation, index -1.
C3_BelowFoundation ==
  (/\ phase = "scored"
   /\ \/ TierFails(results.tier_scores, 0)
      \/ Tier0Unscored(rubric, results))
  => /\ results.tier_determination.tier_number = -1
     /\ results.tier_determination.tier_name = "Below Foundation"

\* the core tiers tier_0..tier_4 of the maturity model, and the ids of the
\* questions that belong to them
CoreTierIds == {"tier_0", "tier_1", "tier_2", "tier_3", "tier_4"}

CoreQuestionIds(qn) ==
  {qn[i].id : i \in {j \in 1..Len(qn) : qn[j].tier \in CoreTierIds}}

\* C4: enrichment tiers never gate.  A scoring run on a response that agrees
\* with the previous run's response on every question of a core tier reports
\* the same tier determination as the previous run.
C4_EnrichmentNeverGates ==
  [][(/\ phase = "scored" /\ phase' = "scored"
      /\ \A qid \in CoreQuestionIds(questionnaire) : response'[qid] = response[qid])
     => results'.tier_determination = results.tier_determination]_vars

\* C4 witness: a run achieves Tier 1 although the enrichment criterion is
\* scored below 3.0, and the enrichment answer counts in the overall score.
C4_Witness ==
  /\ phase = "scored"
  /\ "enrichment_people" \in DOMAIN results.tier_scores
  /\ results.tier_scores["enrichment_people"].score # NULL
  /\ results.tier_scores["enrichment_people"].score < 300
  /\ results.tier_determination.tier_number = 1
  /\ results.overall_score < results.tier_scores["tier_1"].score

\* C5: in every result document the stored tier determination equals
\* determine_tier applied to the document's tier_scores.
C5_DeterminationDerived ==
  HasResults => results.tier_determination = determine_tier(results.tier_scores)

\* the question results of the run that produced the document
RunQuestionScores == question_scores(questionnaire, response)

StatusOf(qid) ==
  LET qs == RunQuestionScores
  IN  IF \E i \in 1..Len(qs) : qs[i].id = qid
        THEN qs[CHOOSE i \in 1..Len(qs) : qs[i].id = qid].status
        ELSE "no such question"

\* every entry of the external document scores a needs_review question, files
\* it under the criterion that owns the question, and no question is scored
\* twice
ScoresNeedsReviewQuestions(llm) ==
  /\ llm.has_text_scores
  /\ llm.text_scores # << >>
  /\ \A i \in 1..Len(llm.text_scores) :
       /\ StatusOf(llm.text_scores[i].id) = "needs_review"
       /\ CriterionOf(questionnaire, llm.text_scores[i])
            = OwnerOf(questionnaire, llm.text_scores[i].id)
       /\ \A j \in 1..Len(llm.text_scores) :
            llm.text_scores[j].id = llm.text_scores[i].id => j = i

\* the question results with the externally scored questions treated as scored
AugmentedQuestionScores(llm) ==
  LET qs == RunQuestionScores
  IN  [i \in 1..Len(qs) |->
        IF \E j \in 1..Len(llm.text_scores) : llm.text_scores[j].id = qs[i].id
          THEN [qs[i] EXCEPT
                  !.score = llm.text_scores[
                              CHOOSE j \in 1..Len(llm.text_scores) :
                                llm.text_scores[j].id = qs[i].id].score,
                  !.status = "scored"]
          ELSE qs[i]]

\* the aggregation of run_scoring over given question results
Reaggregated(qs) ==
  LET crs == criterion_results(rubric, qs)
  IN  [tier_scores   |-> tier_scores_of(rubric, crs),
       overall_score |-> WeightedMean(crs)]

\* C6: after merge_llm_scores with external scores for needs_review questions,
\* every criterion score and level, every tier score and the overall score
\* equal what run_scoring's aggregation yields with those questions treated as
\* scored with the supplied values.
C6_MergeEqualsReaggregation ==
  (phase = "merged" /\ ScoresNeedsReviewQuestions(llm_analysis))
  => ScoreView(results) = ScoreView(Reaggregated(AugmentedQuestionScores(llm_analysis)))

\* C7: merging the same external document a second time leaves every
\* criterion score and level, every tier score and the overall score as the
\* first merge left them.
C7_MergeIdempotent ==
  [][(phase = "merged" /\ merges' = merges + 1)
     => ScoreView(results') = ScoreView(results)]_vars

\* C7 witness: a document whose external scores changed a criterion average
\* that also has an automatically scored question has been merged twice.
C7_Witness ==
  /\ phase = "merged"
  /\ merges = 2
  /\ \E p \in Entries(results) :
       /\ EntryOf(results, p).includes_llm_scores
       /\ EntryOf(results, p).scored_count > 0
       /\ EntryOf(results, p).score
            # compute_criterion_score(EntryOf(results, p).questions).score

\* C8: merging an external document with no text_scores (absent or empty)
\* returns a document with the criterion scores, tier scores and overall score
\* of the input document.
C8_EmptyMergeIsNoOp ==
  [][(/\ phase = "scored" /\ phase' = "merged"
      /\ llm_analysis'.text_scores = << >>)
     => ScoreView(results') = ScoreView(results)]_vars

\* the number of questions of a criterion entry whose status is scored
ScoredQuestions(cdata) == Len(SelectSeq(cdata.questions, IsScored))

C10_CriterionScoreInRange ==
  phase = "scored" =>
    \A p \in Entries(results) :
      EntryOf(results, p).score # NULL
        => (100 <= EntryOf(results, p).score /\ EntryOf(results, p).score <= 500)

\* the criterion results of the run that produced the document, those of
\* criteria the rubric does not list included
RunCriterionResults == criterion_results(rubric, RunQuestionScores)

\* C11: a criterion's score is the arithmetic mean (stored to 2 decimals) of
\* the scores of exactly those of its questions whose status is scored;
\* unanswered, invalid, needs_review and unknown_type questions count in
\* neither the sum nor the number of terms.
C11_CriterionScoreIsMeanOfScored ==
  phase = "scored" =>
    /\ \A p \in Entries(results) :
         EntryOf(results, p) \in {RunCriterionResults[i] : i \in 1..Len(RunCriterionResults)}
    /\ \A i \in 1..Len(RunCriterionResults) :
         LET cdata  == RunCriterionResults[i]
             scored == SelectSeq(cdata.questions, IsScored)
         IN  /\ cdata.scored_count = Len(scored)
             /\ cdata.score = IF scored = << >> THEN NULL
                              ELSE Round2(SumSeq(Scores(scored)), Len(scored))

\* C11 witness: a criterion with two scored questions of different score and
\* one unanswered question; its score is the mean of the two.
C11_Witness ==
  /\ phase = "scored"
  /\ \E p \in Entries(results) :
       /\ EntryOf(results, p).total_count = 3
       /\ EntryOf(results, p).scored_count = 2
       /\ EntryOf(results, p).score = 150

\* the weight the rubric gives a criterion, 1.0 when it gives none
RubricWeight(c) == IF c.weight # NULL THEN c.weight ELSE 1

\* over the first n criteria the rubric lists under a tier, those with a
\* non-null score in the document: sum of score x weight, and sum of weights
RECURSIVE TierWeightedSum(_, _, _)
TierWeightedSum(res, cs, n) ==
  IF n = 0 THEN 0
  ELSE TierWeightedSum(res, cs, n - 1)
       + DocScore(res, cs[n].id) * RubricWeight(cs[n]) * (IF DocScore(res, cs[n].id) # NULL THEN 1 ELSE 0)

RECURSIVE TierTotalWeight(_, _, _)
TierTotalWeight(res, cs, n) ==
  IF n = 0 THEN 0
  ELSE TierTotalWeight(res, cs, n - 1)
       + (IF DocScore(res, cs[n].id) # NULL THEN RubricWeight(cs[n]) ELSE 0)

\* C12: a tier's score is the sum of criterion score x criterion weight over
\* the sum of the weights, taken over the criteria of the tier with a non-null
\* score, with weight 1.0 for a criterion the rubric gives no weight; the
\* tier score is null exactly when no criterion of the tier has a score.
C12_TierScoreIsWeightedMean ==
  HasResults =>
    \A t \in 1..Len(rubric) :
      LET cs == rubric[t].criteria
          w  == TierTotalWeight(results, cs, Len(cs))
          stored == results.tier_scores[rubric[t].id].score
      IN  /\ stored = IF w = 0 THEN NULL
                      ELSE RoundHalfEven(TierWeightedSum(results, cs, Len(cs)), w)
          /\ (stored = NULL) <=>
               (\A k \in 1..Len(cs) : DocScore(results, cs[k].id) = NULL)

\* C12 witness: a tier with two scored criteria, one of weight 2.0 and one of
\* default weight, scoring 1.0 and 2.0: the tier score is 1.33, not 1.5.
C12_Witness ==
  /\ phase = "scored"
  /\ \E t \in 1..Len(rubric) :
       /\ Len(rubric[t].criteria) = 2
       /\ rubric[t].criteria[1].weight = 2
       /\ rubric[t].criteria[2].weight = NULL
       /\ DocScore(results, rubric[t].criteria[1].id) = 100
       /\ DocScore(results, rubric[t].criteria[2].id) = 200
       /\ results.tier_scores[rubric[t].id].score = 133

\* over the first n tiers of the rubric, the criterion results the document
\* contains with a non-null score: sum of score x weight, and sum of weights
RECURSIVE DocWeightedSum(_, _, _)
DocWeightedSum(res, rub, n) ==
  IF n = 0 THEN 0
  ELSE DocWeightedSum(res, rub, n - 1)
       + TierWeightedSum(res, rub[n].criteria, Len(rub[n].criteria))

RECURSIVE DocTotalWeight(_, _, _)
DocTotalWeight(res, rub, n) ==
  IF n = 0 THEN 0
  ELSE DocTotalWeight(res, rub, n - 1)
       + TierTotalWeight(res, rub[n].criteria, Len(rub[n].criteria))

\* C13: the overall_score stored in a result document equals the
\* weight-normalized mean of all non-null criterion scores recomputed from the
\* criterion results the document contains, to 2 decimals; it is null when
\* nothing in the document is scored.
C13_OverallFromDocumentCriteria ==
  HasResults =>
    LET w == DocTotalWeight(results, rubric, Len(rubric))
    IN  results.overall_score =
          IF w = 0 THEN NULL
          ELSE RoundHalfEven(DocWeightedSum(results, rubric, Len(rubric)), w)

\* the full-precision average of a criterion, as the fraction <<sum, count>>
\* of the scores of its scored questions
ExactAverage(cdata) ==
  LET scored == SelectSeq(cdata.questions, IsNotNone)
  IN  <<SumSeq(Scores(scored)), Len(scored)>>

\* sum of full-precision average x weight over the scored ones of the first n
\* criterion results, as a fraction <<numerator, denominator>>
RECURSIVE ExactWeightedSum(_, _)
ExactWeightedSum(crs, n) ==
  IF n = 0 THEN <<0, 1>>
  ELSE LET rest == ExactWeightedSum(crs, n - 1)
           avg  == ExactAverage(crs[n])
       IN  IF avg[2] = 0 THEN rest
           ELSE <<rest[1] * avg[2] + avg[1] * crs[n].weight * rest[2],
                  rest[2] * avg[2]>>

\* round(weight-normalized mean of the full-precision averages, 2)
ExactWeightedMean(crs) ==
  LET sum == ExactWeightedSum(crs, Len(crs))
      w   == TotalWeight(crs)
  IN  IF w = 0 THEN NULL ELSE Round2(sum[1], sum[2] * w)

\* C14: scores are rounded to 2 decimals only at the point of storage: each
\* tier score and the overall score of a scoring run equal the 2-decimal
\* rounding of the weight-normalized mean of the full-precision criterion
\* averages, not of criterion averages already rounded to 2 decimals.
C14_RoundedOnlyAtStorage ==
  phase = "scored" =>
    /\ \A t \in 1..Len(rubric) :
         results.tier_scores[rubric[t].id].score =
           ExactWeightedMean(SelectSeq(RunCriterionResults,
                                       LAMBDA c : c.tier_id = rubric[t].id))
    /\ results.overall_score = ExactWeightedMean(RunCriterionResults)

\* a scoring run has been started on the response
RunStarted == phase # "loaded"

\* the result score_question gives for question i of the questionnaire
ResultOf(i) ==
  score_question(questionnaire[i], AnswerOf(response, questionnaire[i].id))

\* C15: for a checklist question, score_question gives score = the question's
\* own yes_value with status scored for answer true, score = 1 with status
\* scored for answer false, and status invalid with a null score and an error
\* message for every non-null non-boolean answer.
C15_ChecklistScoring ==
  RunStarted =>
    \A i \in 1..Len(questionnaire) :
      LET q == questionnaire[i]
          a == AnswerOf(response, q.id)
          r == ResultOf(i)
      IN  q.type = "checklist" =>
            /\ a = BoolAnswer(TRUE) =>
                 r.status = "scored" /\ r.score = q.yes_value
            /\ a = BoolAnswer(FALSE) =>
                 r.status = "scored" /\ r.score = 1
            /\ a.t \notin {"none", "bool"} =>
                 r.status = "invalid" /\ r.score = NULL /\ r.error # ""

\* the answer is an integer, or an integer-valued number, in 1..5
IsIntegerOneToFive(a) ==
  /\ a.t \in {"int", "float"}
  /\ Tenths(a) % 10 = 0
  /\ 10 <= Tenths(a) /\ Tenths(a) <= 50

\* C16: for a scale question, score_question gives status scored with score =
\* the answer exactly when the answer is an integer (or integer-valued number)
\* in 1..5; every other non-null answer (out of range, non-integer number,
\* boolean, string) gives status invalid with a null score and an error.
C16_ScaleScoring ==
  RunStarted =>
    \A i \in 1..Len(questionnaire) :
      LET q == questionnaire[i]
          a == AnswerOf(response, q.id)
          r == ResultOf(i)
      IN  q.type = "scale" /\ a.t # "none" =>
            IF IsIntegerOneToFive(a)
              THEN r.status = "scored" /\ 10 * r.score = Tenths(a)
              ELSE r.status = "invalid" /\ r.score = NULL /\ r.error # ""

\* the answer is a string with a character that is not a blank
HasNonBlank(a) == a.t = "str" /\ \E k \in 1..Len(a.s) : a.s[k] # " "

\* the answer is absent, or a string that is empty or all blanks
IsBlankOrAbsent(a) ==
  \/ a.t = "none"
  \/ a.t = "str" /\ \A k \in 1..Len(a.s) : a.s[k] = " "

\* C17: a text question is never auto-scored: score_question returns a null
\* score for it, with status needs_review and the raw answer retained when the
\* answer is a string that is non-empty after trimming, and status unanswered
\* when the answer is empty, whitespace-only or absent.
C17_TextNeverScored ==
  RunStarted =>
    \A i \in 1..Len(questionnaire) :
      LET q == questionnaire[i]
          a == AnswerOf(response, q.id)
          r == ResultOf(i)
      IN  q.type = "text" =>
            /\ r.score = NULL
            /\ HasNonBlank(a) => r.status = "needs_review" /\ r.raw_answer = a
            /\ IsBlankOrAbsent(a) => r.status = "unanswered"

\* C17 witness: a scoring run over a text question answered with text after
\* a leading blank: it is listed for review with the answer as given, and no
\* question of the run is scored.
C17_Witness ==
  /\ phase = "scored"
  /\ results.scored_count = 0
  /\ \E i \in 1..Len(questionnaire) :
       /\ questionnaire[i].type = "text"
       /\ response[questionnaire[i].id] = StrAnswer(<<" ", "o", "k">>)
       /\ \E k \in 1..Len(results.needs_review) :
            /\ results.needs_review[k].id = questionnaire[i].id
            /\ results.needs_review[k].answer = StrAnswer(<<" ", "o", "k">>)

\* the question types score_question knows
KnownTypes == {"checklist", "scale", "text"}

\* C18: a null or absent answer yields status unanswered with a null score
\* regardless of the question's type (an unknown type included); a non-null
\* answer to a question whose type is none of checklist, scale, text yields
\* status unknown_type with a null score.
C18_UnansweredAndUnknownType ==
  RunStarted =>
    \A i \in 1..Len(questionnaire) :
      LET q == questionnaire[i]
          a == AnswerOf(response, q.id)
          r == ResultOf(i)
      IN  /\ a.t = "none" => r.status = "unanswered" /\ r.score = NULL
          /\ a.t # "none" /\ q.type \notin KnownTypes =>
               r.status = "unknown_type" /\ r.score = NULL

\* C18 witness: a scoring run in which a question of an unknown type is
\* answered and reported with status unknown_type, next to an unanswered
\* question of a known type.
C18_Witness ==
  /\ phase = "scored"
  /\ \E i, j \in 1..Len(questionnaire) :
       /\ questionnaire[i].type \notin KnownTypes
       /\ response[questionnaire[i].id] # NoneAnswer
       /\ \E p \in Entries(results) :
            \E k \in 1..Len(EntryOf(results, p).questions) :
              /\ EntryOf(results, p).questions[k].id = questionnaire[i].id
              /\ EntryOf(results, p).questions[k].status = "unknown_type"
              /\ EntryOf(results, p).questions[k].score = NULL
       /\ questionnaire[j].type \in KnownTypes
       /\ response[questionnaire[j].id] = NoneAnswer
       /\ \E k \in 1..Len(results.issues) :
            /\ results.issues[k].id = questionnaire[j].id
            /\ results.issues[k].status = "unanswered"

\* C19: every question-level error is rolled into issues: in the result of
\* run_scoring each question whose status is unanswered, invalid or
\* unknown_type has an entry in issues carrying its id and status, so an
\* unknown question type is recorded and distinguishable from an invalid
\* answer.
C19_ErrorsRolledIntoIssues ==
  phase = "scored" =>
    \A i \in 1..Len(RunQuestionScores) :
      RunQuestionScores[i].status \in {"unanswered", "invalid", "unknown_type"} =>
        \E k \in 1..Len(results.issues) :
          /\ results.issues[k].id = RunQuestionScores[i].id
          /\ results.issues[k].status = RunQuestionScores[i].status

\* C20: no question-level problem aborts a scoring run: for every question
\* definition the questionnaire format admits (a scoring block without
\* yes_value included) and every raw answer, run_scoring completes and
\* produces a result for each question instead of raising.
C20_RunNeverAborts ==
  RunStarted =>
    /\ phase # "failed"
    /\ results.question_count = Len(questionnaire)

\* the positions of the recommendations that name a criterion
RecommendationsFor(res, name) ==
  {k \in 1..Len(res.recommendations) : res.recommendations[k].criterion = name}

\* C21: the recommendation list produced by run_scoring contains exactly one
\* recommendation for every criterion whose score is non-null and below 3.0,
\* and none for any criterion whose score is null or at least 3.0.
C21_OneRecommendationPerLowCriterion ==
  phase = "scored" =>
    /\ \A i \in 1..Len(RunCriterionResults) :
         LET cdata == RunCriterionResults[i]
         IN  Cardinality(RecommendationsFor(results, cdata.name)) =
               IF cdata.score # NULL /\ cdata.score < 300 THEN 1 ELSE 0
    /\ \A k \in 1..Len(results.recommendations) :
         \E i \in 1..Len(RunCriterionResults) :
           /\ RunCriterionResults[i].name = results.recommendations[k].criterion
           /\ RunCriterionResults[i].score = results.recommendations[k].current_score

\* C21 witness: a scoring run with a criterion below 3.0 that has its
\* recommendation, a criterion at 3.0 or more and a criterion without score
\* that have none.
C21_Witness ==
  /\ phase = "scored"
  /\ Len(results.recommendations) = 1
  /\ \E i, j, k \in 1..Len(RunCriterionResults) :
       /\ RunCriterionResults[i].score >= 300
       /\ RunCriterionResults[j].score = NULL
       /\ RunCriterionResults[k].score # NULL
       /\ RunCriterionResults[k].score < 300
       /\ results.recommendations[1].criterion = RunCriterionResults[k].name

\* the enrichment tiers of the model's rubrics
EnrichmentTierIds == {"enrichment_people", "enrichment_process"}

\* a core tier precedes every later core tier and every enrichment tier
RanksBefore(tid_a, tid_b) ==
  /\ tid_a \in CoreTierIds
  /\ \/ tid_b \in EnrichmentTierIds
     \/ /\ tid_b \in CoreTierIds
        /\ \E i, j \in 1..Len(core_tier_order) :
             i < j /\ core_tier_order[i] = tid_a /\ core_tier_order[j] = tid_b

\* the criterion result of the run that recommendation k is about
CriterionOfRecommendation(k) ==
  RunCriterionResults[CHOOSE i \in 1..Len(RunCriterionResults) :
    RunCriterionResults[i].name = results.recommendations[k].criterion]

FixedLevelName(level) ==
  CASE level = 1 -> "Initial"
    [] level = 2 -> "Repeatable"
    [] level = 3 -> "Defined"
    [] level = 4 -> "Managed"
    [] level = 5 -> "Optimized"

\* n clamped to 1..5
ClampLevel(n) == IF n < 1 THEN 1 ELSE IF n > 5 THEN 5 ELSE n

\* level is score (in hundredths) rounded to a nearest integer, then clamped
IsClampedNearest(level, score) ==
  \E n \in 0..10 :
    /\ 100 * n - score <= 50
    /\ score - 100 * n <= 50
    /\ level = ClampLevel(n)

\* C23: whenever a criterion's score is non-null, its level is the score
\* rounded to the nearest integer and clamped to 1..5, and its level name is
\* the fixed name of that level; when the score is null no level is computed.
\* This holds for the criterion results of run_scoring and for those
\* rewritten by merge_llm_scores.
C23_LevelIsClampedRoundedScore ==
  HasResults =>
    \A p \in Entries(results) :
      LET cdata == EntryOf(results, p)
      IN  IF cdata.score = NULL
            THEN cdata.level = NULL
            ELSE /\ IsClampedNearest(cdata.level, cdata.score)
                 /\ cdata.level_name = FixedLevelName(cdata.level)

\* ---------------------------------------------------------------------------
\* The Assessment tab of the spreadsheet (self mode).  A worksheet is a
\* function from <<row, column>> to the cell's value, a tagged value like an
\* answer; an empty cell holds None.  With data_only=True a formula cell
\* gives the value the spreadsheet program computed for it.
\* ---------------------------------------------------------------------------

\* a text whose characters the code does not look at
Text(str) == StrAnswer(<<str>>)

\* str(tier_id).startswith("enrichment")
is_enrichment(tier_id) == tier_id \in EnrichmentTierIds

\* the row of the column headers; the first question block starts below it
HeaderRow == 12

\* rows put in front of question i: the four rows of the enrichment section
\* transition, and the banner of a tier that differs from the previous one
\* (the rubrics of the model give no tier description, so no sub-row)
RowsBefore(qn, i) ==
  (IF /\ is_enrichment(qn[i].tier)
      /\ \A j \in 1..(i - 1) : ~is_enrichment(qn[j].tier)
     THEN 4 ELSE 0)
  + (IF i = 1 \/ qn[i].tier # qn[i - 1].tier THEN 1 ELSE 0)

\* the row of question i
RECURSIVE QuestionRow(_, _)
QuestionRow(qn, i) ==
  (IF i = 1 THEN HeaderRow + 1 ELSE QuestionRow(qn, i - 1) + 1) + RowsBefore(qn, i)

LastRow(qn) == QuestionRow(qn, Len(qn))

\* the columns of the worksheet that the code touches
Columns == 1..8

CriterionName(rub, cid) ==
  IF cid \in RubricCriteria(rub) THEN build_criterion_index(rub)[cid].name ELSE cid

\* the value of the score formula of a question row for an answer cell:
\* =IF(E="Yes",yes_value,IF(E="No",1,"")) and =IF(E="","",E); a checklist
\* question without yes_value gets 3
ScoreFormula(q, answer) ==
  CASE q.type = "checklist" ->
         IF answer = StrAnswer(<<"Y", "e", "s">>)
           THEN IntAnswer(IF q.yes_value # NULL THEN q.yes_value ELSE 3)
         ELSE IF answer = StrAnswer(<<"N", "o">>) THEN IntAnswer(1)
         ELSE StrAnswer(<< >>)
    [] q.type = "scale" ->
         IF answer = NoneAnswer THEN StrAnswer(<< >>) ELSE answer
    [] OTHER -> NoneAnswer

\* the cells build_assessment_tab writes
build_assessment_tab(qn, rub) ==
  [cell \in (1..LastRow(qn)) \X Columns |->
     LET r == cell[1]
         c == cell[2]
         IsRowOf(i) == QuestionRow(qn, i) = r
     IN  IF \E i \in 1..Len(qn) : IsRowOf(i)
           THEN LET q == qn[CHOOSE i \in 1..Len(qn) : IsRowOf(i)]
                IN  CASE c = 2 -> Text(q.id)
                      [] c = 3 -> Text(CriterionName(rub, q.criterion))
                      [] c = 4 -> Text("question")
                      [] c = 6 -> ScoreFormula(q, NoneAnswer)
                      [] OTHER -> NoneAnswer
         ELSE IF r = 1 /\ c = 1 THEN Text("  DEBMM Assessment")
         ELSE IF r = 2 /\ c = 1
           THEN Text("  Detection Engineering Behavior Maturity Model")
         ELSE IF r \in 4..8 /\ c = 3
           THEN CASE r = 4 -> Text("Organization:")
                  [] r = 5 -> Text("Assessor Name:")
                  [] r = 6 -> Text("Assessor Role:")
                  [] r = 7 -> Text("Date:")
                  [] r = 8 -> Text("Assessment Type:")
         ELSE IF r = 8 /\ c = 4 THEN Text("Self-Assessment")
         ELSE IF r = HeaderRow /\ c \in 2..6
           THEN CASE c = 2 -> Text("ID")
                  [] c = 3 -> Text("Criterion")
                  [] c = 4 -> Text("Question")
                  [] c = 5 -> Text("Answer")
                  [] c = 6 -> Text("Score")
         \* context, banner and repeated header rows: text in column B (the
         \* empty spacer row of the enrichment transition is not told apart)
         ELSE IF r >= 10 /\ c = 2 THEN Text("section")
         ELSE NoneAnswer]

\* str.lower() on the characters that occur in the model
LowerChar(ch) ==
  CASE ch = "Y" -> "y"
    [] ch = "N" -> "n"
    [] ch = "Date:" -> "date:"
    [] ch = "Audit" -> "audit"
    [] OTHER -> ch

Lower(chars) == [i \in 1..Len(chars) |-> LowerChar(chars[i])]

Digits == {"0", "1", "2", "3", "4", "5", "6", "7", "8", "9"}

DigitValue(ch) ==
  CASE ch = "0" -> 0 [] ch = "1" -> 1 [] ch = "2" -> 2 [] ch = "3" -> 3
    [] ch = "4" -> 4 [] ch = "5" -> 5 [] ch = "6" -> 6 [] ch = "7" -> 7
    [] ch = "8" -> 8 [] ch = "9" -> 9

\* str.isdigit(): non-empty and all digits
IsDigit(chars) == chars # << >> /\ \A i \in 1..Len(chars) : chars[i] \in Digits

\* int() of a digit string
RECURSIVE IntOfDigits(_)
IntOfDigits(chars) ==
  IF chars = << >> THEN 0
  ELSE 10 * IntOfDigits(SubSeq(chars, 1, Len(chars) - 1)) + DigitValue(chars[Len(chars)])

\* Python truthiness of a cell value
IsTruthy(v) ==
  CASE v.t = "none" -> FALSE
    [] v.t = "str"  -> v.s # << >>
    [] OTHER        -> v.n # 0

\* "Convert answer based on question type"
ConvertAnswer(qtype, answer) ==
  CASE qtype = "checklist" ->
         IF answer.t = "str"
           THEN BoolAnswer(Lower(Strip(answer.s)) \in
                             {<<"y", "e", "s">>, <<"t", "r", "u", "e">>, <<"1">>})
         ELSE IF answer.t = "bool" THEN answer
         ELSE NoneAnswer
    [] qtype = "scale" ->
         IF IsNumber(answer) THEN IntAnswer(IntOf(answer))
         ELSE IF answer.t = "str" /\ IsDigit(Strip(answer.s))
           THEN IntAnswer(IntOfDigits(Strip(answer.s)))
         ELSE NoneAnswer
    [] qtype = "text" ->
         IF ~IsTruthy(answer) THEN StrAnswer(<< >>)
         ELSE IF answer.t = "str" THEN StrAnswer(Strip(answer.s))
         ELSE answer
    [] OTHER -> answer

\* value or ""
OrEmpty(v) == IF IsTruthy(v) THEN v ELSE StrAnswer(<< >>)

\* str(value or "self").lower().replace("-", "_").replace("self_assessment", "self")
AssessmentType(v) ==
  IF ~IsTruthy(v) \/ v = Text("Self-Assessment") THEN Text("self")
  ELSE IF v.t = "str" THEN StrAnswer(Lower(v.s)) ELSE v

\* the rows of the sheet whose column A holds a question id
RowsOfId(ws, last_row, qid) == {r \in 2..last_row : ws[<<r, 1>>] = Text(qid)}

Max(S) == CHOOSE x \in S : \A y \in S : y <= x

\* the response dict: metadata from the cells C3..C7, and for every row
\* whose column A holds a question id the converted value of column F (a
\* later row of the same id overwrites an earlier one)
load_xlsx_responses(ws, last_row, qn) ==
  [metadata |->
     [organization    |-> OrEmpty(ws[<<3, 3>>]),
      assessor_name   |-> OrEmpty(ws[<<4, 3>>]),
      assessor_role   |-> OrEmpty(ws[<<5, 3>>]),
      date            |-> OrEmpty(ws[<<6, 3>>]),
      assessment_type |-> AssessmentType(ws[<<7, 3>>])],
   responses |->
     [qid \in {id \in QuestionIds(qn) : RowsOfId(ws, last_row, id) # {}} |->
        ConvertAnswer(QuestionById(qn, qid).type,
                      ws[<<Max(RowsOfId(ws, last_row, qid)), 6>>])]]

\* what a user enters in the answer cell of a question: a value of the
\* Yes/No or 1..5 dropdown, or free text
XlsxAnswersFor(q) ==
  CASE q.type = "checklist" -> {StrAnswer(<<"Y", "e", "s">>), StrAnswer(<<"N", "o">>)}
    [] q.type = "scale"     -> {IntAnswer(2), IntAnswer(5)}
    [] OTHER                -> {StrAnswer(<<"o", "k">>)}

\* the rows of the metadata cells D4..D7 and what a user enters in them
MetadataRows == 4..7

MetadataValue(r) ==
  CASE r = 4 -> Text("Acme")
    [] r = 5 -> Text("Sam")
    [] r = 6 -> Text("Lead")
    [] r = 7 -> Text("2026-01-15")

RowOfQuestion(qn, qid) ==
  QuestionRow(qn, CHOOSE i \in 1..Len(qn) : qn[i].id = qid)

\* generate_spreadsheet.py: the generated workbook, not yet filled
InitXlsx ==
  /\ \E yv \in YesValues :
       /\ rubric = RubricStd
       /\ questionnaire = QnFull(yv)
  /\ response = [qid \in QuestionIds(questionnaire) |-> NoneAnswer]
  /\ results = NoResults
  /\ llm_analysis = NoTextScores
  /\ phase = "generated"
  /\ merges = 0
  /\ workbook = build_assessment_tab(questionnaire, rubric)
  /\ xlsx_response = << >>
  /\ history = NoHistoryFile
  /\ upserts = << >>

\* the user picks or types an answer in column E of a question row; the
\* spreadsheet program recomputes the score formula of the row
FillAnswer(qid, v) ==
  /\ phase = "generated"
  /\ workbook[<<RowOfQuestion(questionnaire, qid), 5>>] # v
  /\ workbook' =
       [workbook EXCEPT
          ![<<RowOfQuestion(questionnaire, qid), 5>>] = v,
          ![<<RowOfQuestion(questionnaire, qid), 6>>] =
             ScoreFormula(QuestionById(questionnaire, qid), v)]
  /\ UNCHANGED <<rubric, questionnaire, response, results, llm_analysis, phase,
                 merges, xlsx_response, history, upserts>>

\* the user types into one of the metadata cells D4..D7
FillMetadata(r) ==
  /\ phase = "generated"
  /\ workbook[<<r, 4>>] = NoneAnswer
  /\ workbook' = [workbook EXCEPT ![<<r, 4>>] = MetadataValue(r)]
  /\ UNCHANGED <<rubric, questionnaire, response, results, llm_analysis, phase,
                 merges, xlsx_response, history, upserts>>

\* score.py --from-xlsx: load_xlsx_responses on the saved workbook
LoadXlsx ==
  /\ phase = "generated"
  /\ xlsx_response' =
       load_xlsx_responses(workbook, LastRow(questionnaire), questionnaire)
  /\ phase' = "xlsx_loaded"
  /\ UNCHANGED <<rubric, questionnaire, response, results, llm_analysis, merges,
                 workbook, history, upserts>>

NextXlsx ==
  \/ \E qid \in QuestionIds(questionnaire) :
       \E v \in XlsxAnswersFor(QuestionById(questionnaire, qid)) : FillAnswer(qid, v)
  \/ \E r \in MetadataRows : FillMetadata(r)
  \/ LoadXlsx

SpecXlsx == InitXlsx /\ [][NextXlsx]_vars

\* the answer a filled answer cell stands for
EnteredAnswer(q, v) ==
  IF q.type = "checklist" /\ v = StrAnswer(<<"Y", "e", "s">>) THEN BoolAnswer(TRUE)
  ELSE IF q.type = "checklist" /\ v = StrAnswer(<<"N", "o">>) THEN BoolAnswer(FALSE)
  ELSE v

\* the user filled every answer cell and the metadata cells
AllFilled ==
  /\ \A i \in 1..Len(questionnaire) :
       workbook[<<QuestionRow(questionnaire, i), 5>>] # NoneAnswer
  /\ \A r \in MetadataRows : workbook[<<r, 4>>] # NoneAnswer

\* C24: scoring from a filled-out spreadsheet reads back what was entered:
\* for a workbook made by build_assessment_tab in which the user filled the
\* answer cells and the metadata cells, load_xlsx_responses returns, for
\* every question id of the questionnaire, the answer entered for that
\* question, and the entered organization, assessor and date as metadata.
C24_XlsxReadsBackWhatWasEntered ==
  phase = "xlsx_loaded" /\ AllFilled =>
    /\ \A i \in 1..Len(questionnaire) :
         LET q == questionnaire[i]
         IN  /\ q.id \in DOMAIN xlsx_response.responses
             /\ xlsx_response.responses[q.id] =
                  EnteredAnswer(q, workbook[<<QuestionRow(questionnaire, i), 5>>])
    /\ xlsx_response.metadata.organization = workbook[<<4, 4>>]
    /\ xlsx_response.metadata.assessor_name = workbook[<<5, 4>>]
    /\ xlsx_response.metadata.date = workbook[<<7, 4>>]

\* ---------------------------------------------------------------------------
\* The frame of a merge
\* ---------------------------------------------------------------------------

\* a step that merges an external document into the result document
IsMergeStep ==
  \/ phase = "scored" /\ phase' = "merged"
  \/ phase = "merged" /\ merges' = merges + 1

\* the criterion ids the rubric lists
RubricCriterionIds(rub) ==
  UNION {{rub[t].criteria[k].id : k \in 1..Len(rub[t].criteria)} : t \in 1..Len(rub)}

\* the criterion an external entry names: its criterion field, or without one
\* the criterion of the question it names ("" if there is none)
NamedCriterion(qn, ts) ==
  IF ts.criterion # "" THEN ts.criterion
  ELSE IF \E i \in 1..Len(qn) : qn[i].id = ts.id
         THEN qn[CHOOSE j \in 1..Len(qn) : qn[j].id = ts.id].criterion
         ELSE ""

\* the external document supplies a score for criterion cid
SuppliesScoreFor(llm, qn, cid) ==
  /\ llm.has_text_scores
  /\ \E k \in 1..Len(llm.text_scores) : NamedCriterion(qn, llm.text_scores[k]) = cid

\* C25: a merge leaves every question result (score, status, raw answer) as
\* it was, in the criterion entries and in the needs_review and issues lists;
\* it leaves the score and level of every criterion for which the external
\* document supplies no score as they were; and an external document whose
\* entries all name criteria the rubric does not list changes no criterion
\* score.
C25_MergeFrame ==
  [][IsMergeStep =>
       /\ Entries(results') = Entries(results)
       /\ results'.needs_review = results.needs_review
       /\ results'.issues = results.issues
       /\ \A p \in Entries(results) :
            /\ EntryOf(results', p).questions = EntryOf(results, p).questions
            /\ ~SuppliesScoreFor(llm_analysis', questionnaire, p[2])
                 => /\ EntryOf(results', p).score = EntryOf(results, p).score
                    /\ EntryOf(results', p).level = EntryOf(results, p).level
       /\ (\A k \in 1..Len(llm_analysis'.text_scores) :
             NamedCriterion(questionnaire, llm_analysis'.text_scores[k])
               \notin RubricCriterionIds(rubric))
            => \A p \in Entries(results) :
                 EntryOf(results', p).score = EntryOf(results, p).score]_vars

\* C25 witness: an external document with a score for one criterion has been
\* merged into a document that also holds a scored criterion it supplies no
\* score for, and a scored question.
C25_Witness ==
  /\ phase = "merged"
  /\ \E p \in Entries(results), o \in Entries(results) :
       /\ SuppliesScoreFor(llm_analysis, questionnaire, p[2])
       /\ EntryOf(results, p).includes_llm_scores
       /\ ~SuppliesScoreFor(llm_analysis, questionnaire, o[2])
       /\ EntryOf(results, o).score # NULL
       /\ \E k \in 1..Len(EntryOf(results, o).questions) :
            EntryOf(results, o).questions[k].score # NULL

\* ---------------------------------------------------------------------------
\* extract_data.py: the history file
\* ---------------------------------------------------------------------------

\* the code point of a character of the date strings
Ord(ch) ==
  CASE ch = "-" -> 45
    [] ch = "/" -> 47
    [] ch \in Digits -> 48 + DigitValue(ch)
    [] ch = "A" -> 65
    [] ch = "N" -> 78

\* a < b for Python strings (sequences of characters)
RECURSIVE StrLess(_, _)
StrLess(a, b) ==
  IF b = << >> THEN FALSE
  ELSE IF a = << >> THEN TRUE
  ELSE IF Head(a) # Head(b) THEN Ord(Head(a)) < Ord(Head(b))
  ELSE StrLess(Tail(a), Tail(b))

\* s[:n]
Prefix(s, n) == SubSeq(s, 1, IF Len(s) < n THEN Len(s) ELSE n)

\* strptime(s, "%Y-%m") succeeds, for zero-padded s: dddd-dd with month 1..12
ParsesYearMonth(s) ==
  /\ Len(s) = 7
  /\ IsDigit(SubSeq(s, 1, 4))
  /\ s[5] = "-"
  /\ IsDigit(SubSeq(s, 6, 7))
  /\ IntOfDigits(SubSeq(s, 6, 7)) \in 1..12

\* strptime(s, "%Y-%m-%d") succeeds, for zero-padded s: dddd-dd-dd with month
\* 1..12 and day 1..31 (the dates used here are days every month has)
ParsesYearMonthDay(s) ==
  /\ Len(s) = 10
  /\ ParsesYearMonth(SubSeq(s, 1, 7))
  /\ s[8] = "-"
  /\ IsDigit(SubSeq(s, 9, 10))
  /\ IntOfDigits(SubSeq(s, 9, 10)) \in 1..31

NA == <<"N", "/", "A">>

\* the period key: the --date override, else the year and month of the
\* spreadsheet date, else the current month (<< >> is no override)
derive_period(data, date_override, now) ==
  IF date_override # << >> THEN date_override
  ELSE LET date_str == IF "date" \in DOMAIN data THEN data["date"] ELSE << >>
       IN  IF date_str # << >> /\ date_str # NA /\ date_str # <<"0">>
             THEN IF ParsesYearMonthDay(Prefix(date_str, 10))
                    THEN Prefix(date_str, 7)
                  ELSE IF ParsesYearMonth(Prefix(date_str, 7))
                    THEN Prefix(date_str, 7)
                  ELSE now
             ELSE now

\* {"date": period, "extractedAt": at, **data}: the keys of data win
Snapshot(data, period, at) ==
  [k \in {"date", "extractedAt"} \cup DOMAIN data |->
     IF k \in DOMAIN data THEN data[k]
     ELSE IF k = "date" THEN period ELSE at]

\* entry.get("date", "")
DateKey(entry) == IF "date" \in DOMAIN entry THEN entry["date"] ELSE << >>

\* e put behind the entries of a sorted list whose key is not greater
InsertByDate(sorted, e) ==
  LET n == Cardinality({i \in 1..Len(sorted) :
                          ~StrLess(DateKey(e), DateKey(sorted[i]))})
  IN  SubSeq(sorted, 1, n) \o <<e>> \o SubSeq(sorted, n + 1, Len(sorted))

\* history.sort(key=lambda e: e.get("date", "")), a stable sort
RECURSIVE SortByDate(_)
SortByDate(entries) ==
  IF entries = << >> THEN << >>
  ELSE InsertByDate(SortByDate(SubSeq(entries, 1, Len(entries) - 1)),
                    entries[Len(entries)])

\* the entries after upsert_history(history_path, data, period) at time at
upsert_history(entries, data, period, at) ==
  LET snapshot == Snapshot(data, period, at)
      hits     == {i \in 1..Len(entries) : DateKey(entries[i]) = period}
      upserted == IF hits # {}
                    THEN LET i == CHOOSE i \in hits : \A j \in hits : i <= j
                         IN  [entries EXCEPT ![i] = snapshot]
                    ELSE Append(entries, snapshot)
  IN  SortByDate(upserted)

D_2026_03_15 == <<"2", "0", "2", "6", "-", "0", "3", "-", "1", "5">>
D_2026_04_02 == <<"2", "0", "2", "6", "-", "0", "4", "-", "0", "2">>
P_2026_03 == <<"2", "0", "2", "6", "-", "0", "3">>
P_2026_04 == <<"2", "0", "2", "6", "-", "0", "4">>
P_2026_11 == <<"2", "0", "2", "6", "-", "1", "1">>

\* what extract_report_data returns, as far as the history looks at it: the
\* Date cell as a string (N/A for an empty cell) and the overall score
ReportData ==
  [date : {D_2026_03_15, D_2026_04_02, P_2026_03, NA}, overallScore : {100, 200}]

\* the --date option: absent, or a YYYY-MM string main has validated
DateOverrides == {<< >>, P_2026_03, P_2026_04}

\* datetime.now() as a month
CurrentMonths == {P_2026_11}

\* extract_data.py is run on an organisation that has no history file yet
InitHistory ==
  /\ rubric = RubricStd
  /\ questionnaire = QnFull(4)
  /\ response = [qid \in QuestionIds(questionnaire) |-> NoneAnswer]
  /\ results = NoResults
  /\ llm_analysis = NoTextScores
  /\ phase = "history"
  /\ merges = 0
  /\ workbook = << >>
  /\ xlsx_response = << >>
  /\ history \in {NoHistoryFile, [exists |-> TRUE, entries |-> << >>]}
  /\ upserts = << >>

\* extract_data.py main with --history: the period is derived and the
\* extract is upserted; the time of the call is its number
Upsert(data, date_override, now) ==
  /\ phase = "history"
  /\ Len(upserts) < MaxUpserts
  /\ LET period == derive_period(data, date_override, now)
         at     == Len(upserts) + 1
     IN  /\ history' = [exists  |-> TRUE,
                        entries |-> upsert_history(
                                      IF history.exists THEN history.entries
                                      ELSE << >>,
                                      data, period, at)]
         /\ upserts' = Append(upserts, [period |-> period, data |-> data])
  /\ UNCHANGED <<rubric, questionnaire, response, results, llm_analysis, phase,
                 merges, workbook, xlsx_response>>

NextHistory ==
  \E data \in ReportData, date_override \in DateOverrides, now \in CurrentMonths :
    Upsert(data, date_override, now)

SpecHistory == InitHistory /\ [][NextHistory]_vars

\* the period of the call that wrote a history entry
PeriodOfEntry(e) == upserts[e.extractedAt].period

\* the number of the most recent call for a period
LastUpsertOf(period) ==
  Max({k \in 1..Len(upserts) : upserts[k].period = period})

\* C26: after any sequence of upsert_history calls on a history that started
\* absent or empty, the history holds exactly one entry for each period
\* upserted and none twice, the entries are in ascending order of period, and
\* the entry of a period is the one the most recent call for that period
\* wrote, carrying that call's data.
C26_HistoryOneEntryPerPeriodSortedLatest ==
  phase = "history" =>
    LET h == history.entries
    IN  /\ \A i, j \in 1..Len(h) :
             i < j => /\ PeriodOfEntry(h[i]) # PeriodOfEntry(h[j])
                      /\ ~StrLess(PeriodOfEntry(h[j]), PeriodOfEntry(h[i]))
        /\ \A k \in 1..Len(upserts) :
             \E i \in 1..Len(h) : PeriodOfEntry(h[i]) = upserts[k].period
        /\ \A i \in 1..Len(h) :
             LET last == LastUpsertOf(PeriodOfEntry(h[i]))
             IN  /\ h[i].extractedAt = last
                 /\ \A key \in DOMAIN upserts[last].data :
                      h[i][key] = upserts[last].data[key]

\* ---------------------------------------------------------------------------
\* The merged document as a whole
\* ---------------------------------------------------------------------------

\* C27: in a merged document there is exactly one recommendation for every
\* criterion entry whose merged score is non-null and below 3.0, showing that
\* merged score, and none for a criterion entry whose merged score is null or
\* at least 3.0.
C27_RecommendationsFollowMergedScores ==
  phase = "merged" =>
    \A p \in Entries(results) :
      LET cdata == EntryOf(results, p)
          recs  == RecommendationsFor(results, cdata.name)
      IN  IF cdata.score # NULL /\ cdata.score < 300
            THEN /\ Cardinality(recs) = 1
                 /\ \A k \in recs :
                      results.recommendations[k].current_score = cdata.score
            ELSE recs = {}

\* ---------------------------------------------------------------------------
\* Level names and the Defined threshold
\* ---------------------------------------------------------------------------

\* the level names from Defined upwards
DefinedOrBetter == {"Defined", "Managed", "Optimized"}

\* C28: in every result of run_scoring a criterion whose level name is
\* Defined, Managed or Optimized has a score of at least 3.0 and no
\* recommendation, and every recommendation reports a current level of Initial
\* or Repeatable.
C28_LevelNameAgreesWithThreshold ==
  phase = "scored" =>
    /\ \A i \in 1..Len(RunCriterionResults) :
         LET cdata == RunCriterionResults[i]
         IN  cdata.level_name \in DefinedOrBetter
               => /\ cdata.score >= 300
                  /\ RecommendationsFor(results, cdata.name) = {}
    /\ \A k \in 1..Len(results.recommendations) :
         results.recommendations[k].current_level \in {"Initial", "Repeatable"}

\* ---------------------------------------------------------------------------
\* External scores are not trusted
\* ---------------------------------------------------------------------------

\* every scored criterion of the document has a score in 1.0..5.0 and a level
\* in 1..5
CriteriaInRange(res) ==
  \A p \in Entries(res) :
    EntryOf(res, p).score # NULL
      => /\ 100 <= EntryOf(res, p).score /\ EntryOf(res, p).score <= 500
         /\ EntryOf(res, p).level \in 1..5

\* C29: a merge into a document whose scored criteria all have a score in
\* 1.0..5.0 and a level in 1..5 returns a document whose scored criteria all
\* have a score in 1.0..5.0 and a level in 1..5, whatever scores the external
\* document holds.
C29_MergeKeepsCriteriaInRange ==
  [][(IsMergeStep /\ CriteriaInRange(results)) => CriteriaInRange(results')]_vars

\* ---------------------------------------------------------------------------
\* Attribution of the external scores
\* ---------------------------------------------------------------------------

\* the ids of the needs_review questions of a criterion entry that the
\* external document scores
ReviewedQuestions(cdata, llm) ==
  {cdata.questions[i].id : i \in
     {i \in 1..Len(cdata.questions) :
        /\ cdata.questions[i].status = "needs_review"
        /\ \E k \in 1..Len(llm.text_scores) :
             llm.text_scores[k].id = cdata.questions[i].id}}

\* the sums of one external score for each question of qids
RECURSIVE OneScoreEach(_, _)
OneScoreEach(qids, llm) ==
  IF qids = {} THEN {0}
  ELSE LET qid == CHOOSE x \in qids : TRUE
       IN  {llm.text_scores[k].score + rest :
              k \in {k \in 1..Len(llm.text_scores) : llm.text_scores[k].id = qid},
              rest \in OneScoreEach(qids \ {qid}, llm)}

\* C30: a merge changes the score of a criterion only if the external
\* document scores a needs_review question of that criterion, and the merged
\* score is then the mean of the criterion's automatically scored questions
\* and one external score for each such question.
C30_ExternalScoreCountedOncePerOwnedQuestion ==
  [][(IsMergeStep /\ llm_analysis'.has_text_scores) =>
       \A p \in Entries(results) :
         LET cdata    == EntryOf(results, p)
             qids     == ReviewedQuestions(cdata, llm_analysis')
             existing == Scores(SelectSeq(cdata.questions, IsNotNone))
         IN  IF qids = {}
               THEN EntryOf(results', p).score = cdata.score
               ELSE EntryOf(results', p).score \in
                      {Round2(SumSeq(existing) + ext,
                              Len(existing) + Cardinality(qids)) :
                         ext \in OneScoreEach(qids, llm_analysis')}]_vars

====
